---- MODULE Spec2Model ----
(***************************************************************************)
(* unionix: helpers for discriminated unions (src/index.ts).               *)
(*                                                                         *)
(* create() returns an Operations Set whose core operations (map,          *)
(* transform, when, match, filter, filterBy, fold, ...) are pure functions *)
(* of their arguments.  A behaviour of the model is one call on the        *)
(* Operations Set: `call` holds the operation and its arguments, drawn     *)
(* from bounded sets, and `outcome` what the call produced (a returned     *)
(* value or a thrown error, together with the trace of caller-supplied     *)
(* functions the operation invoked).                                       *)
(*                                                                         *)
(* The one piece of state of an Operations Set is typeGuardCache, the map  *)
(* from the derived names "is..." to the boolean tests synthesized for     *)
(* them.  A second specification, SpecGuards, is a session on one          *)
(* Operations Set: property requests through the Proxy, calls of the tests *)
(* obtained, and core operation calls, in any order.  There names are      *)
(* sequences of characters, so that casing is computed.  `created` counts  *)
(* the closures synthesized so far (it gives each its identity) and        *)
(* `firstReturned` is a history variable: the test each derived name got   *)
(* on its first request.                                                   *)
(*                                                                         *)
(* The remaining variables belong to further specifications, each of one   *)
(* aspect, and keep their initial value elsewhere:                         *)
(*   - requests: the activations of the get trap that are under way, when  *)
(*     its lookup, synthesis and insertion are separate steps (SpecRace);  *)
(*   - operationsSets: for each Operations Set created, the address of the *)
(*     Map its Proxy captured (SpecSets);                                  *)
(*   - heap: the objects allocated, by address (SpecSets, SpecHeap);       *)
(*   - history: the outcome of the call when it was made before            *)
(*     (SpecTwice).                                                        *)
(*                                                                         *)
(* JavaScript values are encoded as records [type, data]:                  *)
(*   - a tagged value {type: t, data: d} is [type |-> t, data |-> d];      *)
(*   - a string primitive s, which has no `type` property, is              *)
(*     [type |-> Undefined, data |-> s].                                   *)
(* A handler map is a plain object: a function from its own keys to the    *)
(* names of the functions stored under them.  Reading a property of a      *)
(* plain object falls back to Object.prototype when the object has no own  *)
(* property of that name.                                                  *)
(***************************************************************************)
EXTENDS Naturals, Sequences, FiniteSets, TLC

VARIABLES call, outcome, typeGuardCache, created, firstReturned,
          requests, operationsSets, heap, history

vars == <<call, outcome, typeGuardCache, created, firstReturned,
          requests, operationsSets, heap, history>>

(* ------------------------------ bounds --------------------------------- *)

\* Longest input array passed to filter / filterBy.
MaxLen == 3

\* Longest array of discriminators passed to filter as its selector.
MaxTypes == 2

\* Longest discriminator, in characters, of a session on the boolean tests.
MaxName == 2

\* Most boolean tests synthesized in a session.
MaxGuards == 2

\* The requests for boolean tests that race on one Operations Set.
MaxRequests == 3

\* Most Operations Sets created.
MaxSets == 2

(* ------------------------- JavaScript values --------------------------- *)

\* The value of a property that does not exist.
Undefined == "undefined"

\* Discriminators (DiscriminatedUnion.type is any string).  "aType" and
\* "bType" are the test suite's; "toString" and "valueOf" are discriminators
\* that are also names of Object.prototype members.
Types == {"aType", "bType", "toString", "valueOf"}

\* Payloads of the `data` field.
Data == {"hi", "hello"}

\* Tagged values.
Values == [type : Types, data : Data]

\* A string primitive: it carries no discriminator.
Str(s) == [type |-> Undefined, data |-> s]

\* String.prototype.toUpperCase on the payloads.
ToUpperCase(s) ==
  CASE s = "hi" -> "HI"
    [] s = "hello" -> "HELLO"
    [] OTHER -> s

\* String.prototype.length on the payloads.
Length(s) ==
  CASE s = "hi" -> 2
    [] s = "hello" -> 5
    [] s = "HI" -> 2
    [] s = "HELLO" -> 5
    [] OTHER -> 0

\* Caller-supplied handlers:
\*   "upper": (a) => ({ ...a, data: a.data.toUpperCase() })   same variant
\*   "toB":   (a) => ({ type: "bType", data: a.data })        other variant
\*   "label": () => "A"                                       not a union value
Handlers == {"upper", "toB", "label"}

\* The handlers a MapHandlers object may hold: they return their own variant.
SameVariantHandlers == {"upper"}

\* A caller-supplied function that raises:
\*   "boom": () => { throw new Error("boom") }
\* as a handler, a default handler or a predicate.
RaisingHandlers == Handlers \cup {"boom"}

\* Caller-supplied predicates:
\*   "long": (a) => a.data.length > 3
\* and Undefined, an entry that holds no function.
Predicates == {"long", Undefined}

\* The predicates, with the function that raises among them.
RaisingPredicates == Predicates \cup {"boom"}

\* Object.prototype: the members every plain object inherits.
ObjectPrototype ==
  ("toString" :> "Object.prototype.toString") @@
  ("valueOf" :> "Object.prototype.valueOf")

\* obj[key] on a plain object: the own property, else the inherited one,
\* else undefined.
Get(obj, key) ==
  IF key \in DOMAIN obj THEN obj[key]
  ELSE IF key \in DOMAIN ObjectPrototype THEN ObjectPrototype[key]
  ELSE Undefined

\* if (x) on a function-or-undefined.
Truthy(x) == x # Undefined

(* ----------------------------- outcomes -------------------------------- *)

\* No call has returned yet.
Pending == [kind |-> "pending"]

Return(v, calls) == [kind |-> "return", value |-> v, calls |-> calls]

Throw(name, message, calls) ==
  [kind |-> "throw", error |-> [name |-> name, message |-> message],
   calls |-> calls]

\* fn(arg): the plain call of a function value (this = undefined).
Call(fn, arg) ==
  LET calls == <<[fn |-> fn, arg |-> arg]>> IN
  CASE fn = "upper" -> Return([arg EXCEPT !.data = ToUpperCase(arg.data)], calls)
    [] fn = "toB" -> Return([type |-> "bType", data |-> arg.data], calls)
    [] fn = "label" -> Return(Str("A"), calls)
    [] fn = "boom" -> Throw("Error", "boom", calls)
    [] fn = "Object.prototype.toString" ->
         Return(Str("[object Undefined]"), calls)
    [] fn = "Object.prototype.valueOf" ->
         Throw("TypeError", "Cannot convert undefined or null to object", calls)

\* predicate(value) for a caller-supplied predicate.
Test(predicate, value) ==
  CASE predicate = "long" -> Length(value.data) > 3

(* ---------------------------- operations ------------------------------- *)

\* map that never looks a handler up: the input comes back.
mapIdentity(value, handlers) == Return(value, <<>>)

\* createMapFunction
map(value, handlers) ==
  LET key == value.type
      handler == Get(handlers, key)
  IN IF Truthy(handler) THEN Call(handler, value)
     ELSE Return(value, <<>>)

\* createTransformFunction
transform(value, handlers) ==
  LET key == value.type
      handler == Get(handlers, key)
  IN IF Truthy(handler) THEN Call(handler, value)
     ELSE Return(value, <<>>)

\* when with the handler's result dropped: the handler runs, the input comes
\* back.
whenDropsResult(value, handlers) ==
  LET key == value.type
      handler == Get(handlers, key)
      result == IF Truthy(handler) THEN Call(handler, value) ELSE Pending
  IN IF ~Truthy(handler)
       THEN Throw("Error", "No handler found for type: " \o value.type, <<>>)
       ELSE IF result.kind = "return" THEN Return(value, result.calls)
       ELSE result

\* createWhenFunction
when(value, handlers) ==
  LET key == value.type
      handler == Get(handlers, key)
  IN IF ~Truthy(handler)
       THEN Throw("Error", "No handler found for type: " \o value.type, <<>>)
       ELSE Call(handler, value)

\* match with map's fallback: a missing handler returns the input instead of
\* throwing.
matchFallsBack(value, handlers) ==
  LET key == value.type
      handler == Get(handlers, key)
  IN IF ~Truthy(handler) THEN Return(value, <<>>)
     ELSE Call(handler, value)

\* createMatchFunction
match(value, handlers) ==
  LET key == value.type
      handler == Get(handlers, key)
  IN IF ~Truthy(handler)
       THEN Throw("Error", "No handler found for type: " \o value.type, <<>>)
       ELSE Call(handler, value)

\* createFoldFunction
fold(value, handlers, defaultHandler) ==
  LET key == value.type
      handler == Get(handlers, key)
  IN IF Truthy(handler) THEN Call(handler, value)
     ELSE Call(defaultHandler, value)

\* Array.isArray(types)
IsArray(types) == types.isArray

\* The elements of an array.
Elements(array) == {array[i] : i \in DOMAIN array}

\* filter without the Array.isArray branch: the selector is always wrapped,
\* so an array selector matches no discriminator.
filterNoArray(values, types) ==
  LET allowedTypes == IF IsArray(types) THEN {} ELSE {types.item}
  IN Return(SelectSeq(values, LAMBDA value : value.type \in allowedTypes),
            <<>>)

\* createFilterFunction
filter(values, types) ==
  LET allowedTypes ==
        IF IsArray(types) THEN Elements(types.items) ELSE {types.item}
  IN Return(SelectSeq(values, LAMBDA value : value.type \in allowedTypes),
            <<>>)

\* filterBy with a default-include policy: elements whose discriminator is no
\* key of the predicate map are kept.
filterByDefaultInclude(values, predicates) ==
  LET allowedTypes == DOMAIN predicates
      Invoked(value) ==
        /\ value.type \in allowedTypes
        /\ Truthy(Get(predicates, value.type))
      Keep(value) ==
        IF value.type \in allowedTypes
          THEN LET predicate == Get(predicates, value.type)
               IN IF Truthy(predicate) THEN Test(predicate, value) ELSE FALSE
          ELSE TRUE
      tested == SelectSeq(values, Invoked)
  IN Return(SelectSeq(values, Keep),
            [i \in DOMAIN tested |->
               [fn |-> Get(predicates, tested[i].type), arg |-> tested[i]]])

\* filterBy with the predicate call wrapped in a try/catch: an element whose
\* predicate raises is dropped and the rest is still returned.
filterBySwallows(values, predicates) ==
  LET allowedTypes == DOMAIN predicates
      Invoked(value) ==
        /\ value.type \in allowedTypes
        /\ Truthy(Get(predicates, value.type))
      Keep(value) ==
        IF value.type \in allowedTypes
          THEN LET predicate == Get(predicates, value.type)
               IN IF Truthy(predicate) /\ predicate # "boom"
                    THEN Test(predicate, value) ELSE FALSE
          ELSE FALSE
      tested == SelectSeq(values, Invoked)
  IN Return(SelectSeq(values, Keep),
            [i \in DOMAIN tested |->
               [fn |-> Get(predicates, tested[i].type), arg |-> tested[i]]])

\* createFilterByFunction.  values.filter calls the callback on the elements
\* in order; a predicate that raises ends the loop, and the error leaves
\* filterBy with the calls made so far and no result.
filterBy(values, predicates) ==
  LET allowedTypes == DOMAIN predicates
      Invoked(value) ==
        /\ value.type \in allowedTypes
        /\ Truthy(Get(predicates, value.type))
      Keep(value) ==
        IF value.type \in allowedTypes
          THEN LET predicate == Get(predicates, value.type)
               IN IF Truthy(predicate) THEN Test(predicate, value) ELSE FALSE
          ELSE FALSE
      tested == SelectSeq(values, Invoked)
      calls == [i \in DOMAIN tested |->
                  [fn |-> Get(predicates, tested[i].type), arg |-> tested[i]]]
      raising == {i \in DOMAIN calls : calls[i].fn = "boom"}
  IN IF raising = {}
       THEN Return(SelectSeq(values, Keep), calls)
       ELSE LET first == CHOOSE i \in raising : \A j \in raising : i <= j
            IN Throw("Error", "boom", SubSeq(calls, 1, first))

\* The loop of createPartitionFunction from element i on.  result[key] reads
\* a plain object: an own group (an array, truthy even when empty), else the
\* member inherited from Object.prototype (a function: truthy, so no group is
\* created, and it has no push method), else undefined.
RECURSIVE partitionFrom(_, _, _)
partitionFrom(values, i, result) ==
  IF i > Len(values) THEN Return(result, <<>>)
  ELSE LET value == values[i]
           key == value.type
       IN IF key \in DOMAIN result
            THEN partitionFrom(values, i + 1,
                               [result EXCEPT ![key] = Append(@, value)])
          ELSE IF key \in DOMAIN ObjectPrototype
            THEN Throw("TypeError", "result[key].push is not a function", <<>>)
          ELSE partitionFrom(values, i + 1, result @@ (key :> <<value>>))

\* createPartitionFunction
partition(values) == partitionFrom(values, 1, <<>>)

\* getType returning the JavaScript type of the value instead of its
\* discriminator.
getTypeOf(value) == Return("object", <<>>)

\* createGetTypeFunction
getType(value) == Return(value.type, <<>>)

\* constructor that keeps only the discriminator and drops the payload.
constructorDropsPayload(type, data) ==
  Return([k \in {"type"} |-> type], <<>>)

\* constructor with the spread last: { type, ...data }, so that a `type`
\* field of the payload overrides the fixed discriminator.
constructorPayloadWins(type, data) ==
  Return([k \in DOMAIN data \cup {"type"} |->
            IF k \in DOMAIN data THEN data[k] ELSE type],
         <<>>)

\* createConstructorFunction: constructor(type)(data) is { ...data, type }.
constructor(type, data) ==
  Return([k \in DOMAIN data \cup {"type"} |->
            IF k = "type" THEN type ELSE data[k]],
         <<>>)

(* ----------------------- boolean tests (is...) ------------------------- *)

\* The characters of the session's names: a cased pair, and the dotless i,
\* whose upper case is "I" while the lower case of "I" is "i".
Alphabet == {"i", "I", "dotless-i"}

\* String.prototype.toLowerCase on one character.
toLowerCase(c) == IF c = "I" THEN "i" ELSE c

\* String.prototype.toUpperCase on one character.
toUpperCase(c) == IF c \in {"i", "dotless-i"} THEN "I" ELSE c

\* uncapitalize that lower-cases the whole string.
uncapitalizeAll(str) == [i \in DOMAIN str |-> toLowerCase(str[i])]

\* uncapitalize: str.charAt(0).toLowerCase() + str.slice(1)
uncapitalize(str) ==
  IF str = <<>> THEN <<>> ELSE <<toLowerCase(Head(str))>> \o Tail(str)

\* Capitalize<K>, the intrinsic that derives the name of K's test:
\* the first character upper-cased.
Capitalize(str) ==
  IF str = <<>> THEN <<>> ELSE <<toUpperCase(Head(str))>> \o Tail(str)

\* `is${Capitalize<K>}`
DerivedName(type) == <<"i", "s">> \o Capitalize(type)

\* prop.startsWith("is")
StartsWithIs(prop) == Len(prop) >= 2 /\ SubSeq(prop, 1, 2) = <<"i", "s">>

\* prop.slice(2)
Slice2(prop) == SubSeq(prop, 3, Len(prop))

\* The closure typeGuard synthesized for typeName, applied to value.
typeGuard(typeName, value) ==
  value.type = uncapitalize(typeName) \/ value.type = typeName

\* The properties of core (createHelpersCore) requested in a session.
CoreProps == {<<"m", "a", "p">>, <<"f", "o", "l", "d">>}

\* Reflect.get(target, prop, receiver) on core.
ReflectGet(prop) ==
  IF prop \in CoreProps THEN [core |-> prop] ELSE Undefined

\* The Map of a process-wide registry: every create() gets the first one.
registryMap(h) == 1

\* new Map() in create(): the address of a Map that is not on the heap yet.
newMap(h) == Len(h) + 1

\* A closure whose answer depends on how many closures were synthesized
\* before it: only the first one tests for the name requested.
newTypeGuardByOrder(count, prop) ==
  [id |-> count + 1,
   typeName |-> IF count = 0 THEN Slice2(prop) ELSE <<>>]

\* The closure the get trap synthesizes for prop: a new function (id) that
\* captures typeName = prop.slice(2).
newTypeGuard(count, prop) == [id |-> count + 1, typeName |-> Slice2(prop)]

\* The get trap without the cache: every request synthesizes a new closure
\* and nothing is stored.
proxyGetNoCache(cache, count, prop) ==
  IF StartsWithIs(prop)
    THEN [value |-> [id |-> count + 1, typeName |-> Slice2(prop)],
          cache |-> cache, created |-> count + 1]
    ELSE [value |-> ReflectGet(prop), cache |-> cache, created |-> count]

\* The get trap without the lookup: every request synthesizes a new closure
\* and stores it over the cached one.
proxyGetOverwrites(cache, count, prop) ==
  IF StartsWithIs(prop)
    THEN LET fn == [id |-> count + 1, typeName |-> Slice2(prop)]
         IN [value |-> fn,
             cache |-> [q \in DOMAIN cache \cup {prop} |->
                          IF q = prop THEN fn ELSE cache[q]],
             created |-> count + 1]
    ELSE [value |-> ReflectGet(prop), cache |-> cache, created |-> count]

\* The get trap without the startsWith("is") test: every property requested
\* is answered with a cached boolean test.
proxyGetCachesAll(cache, count, prop) ==
  IF prop \in DOMAIN cache
    THEN [value |-> cache[prop], cache |-> cache, created |-> count]
    ELSE LET fn == [id |-> count + 1, typeName |-> Slice2(prop)]
         IN [value |-> fn, cache |-> cache @@ (prop :> fn),
             created |-> count + 1]

\* The get trap without the lookup, synthesizing closures whose answer
\* depends on how many were synthesized before: a request replaces the
\* cached test by one that behaves differently.
proxyGetDrifts(cache, count, prop) ==
  IF StartsWithIs(prop)
    THEN LET fn == newTypeGuardByOrder(count, prop)
         IN [value |-> fn,
             cache |-> [q \in DOMAIN cache \cup {prop} |->
                          IF q = prop THEN fn ELSE cache[q]],
             created |-> count + 1]
    ELSE [value |-> ReflectGet(prop), cache |-> cache, created |-> count]

\* The get trap of the Proxy: the value the request returns, the cache after
\* it and the number of closures synthesized so far.
proxyGet(cache, count, prop) ==
  IF StartsWithIs(prop)
    THEN IF prop \in DOMAIN cache
           THEN [value |-> cache[prop], cache |-> cache, created |-> count]
           ELSE LET fn == [id |-> count + 1, typeName |-> Slice2(prop)]
                IN [value |-> fn, cache |-> cache @@ (prop :> fn),
                    created |-> count + 1]
    ELSE [value |-> ReflectGet(prop), cache |-> cache, created |-> count]

(* ------------------------------ inputs --------------------------------- *)

\* Arrays of at most n elements of S.
Arrays(S, n) == UNION {[1..k -> S] : k \in 0..n}

\* A selector of filter: one discriminator, or an array of them.
Selectors ==
  [isArray : {FALSE}, item : Types]
  \cup
  [isArray : {TRUE}, items : Arrays(Types, MaxTypes)]

\* Plain objects whose own keys are discriminators and whose entries are
\* drawn from S.
Objects(S) == UNION {[K -> S] : K \in SUBSET Types}

HandlerMaps == Objects(Handlers)

\* Payloads passed to a constructor: plain objects with some of the fields
\* "data" and "flag", and possibly a "type" field of their own.
Payloads ==
  UNION {[K -> {"hi", "bType"}] : K \in SUBSET {"data", "flag", "type"}}

\* Discriminators as sequences of characters.
Names == Arrays(Alphabet, MaxName)

\* The names "is" + N of the boolean tests.
IsProps == {<<"i", "s">> \o n : n \in Names}

\* Payloads of the values the tests are called on.
GuardPayloads == {<<>>, [data |-> "hi"]}

\* The values the tests are called on: those a constructor builds.
TestValues ==
  {constructor(type, data).value : type \in Names, data \in GuardPayloads}

\* The calls a caller can make.
Calls ==
  [op : {"map", "transform", "when", "match"},
   value : Values, handlers : HandlerMaps]
  \cup
  [op : {"fold"}, value : Values, handlers : HandlerMaps,
   defaultHandler : Handlers]
  \cup
  [op : {"filter"}, values : Arrays(Values, MaxLen), types : Selectors]
  \cup
  [op : {"filterBy"}, values : Arrays(Values, MaxLen),
   predicates : Objects(Predicates)]
  \cup
  [op : {"partition"}, values : Arrays(Values, MaxLen)]
  \cup
  [op : {"getType"}, value : Values]
  \cup
  [op : {"constructor"}, type : Types, data : Payloads]
  \cup
  [op : {"typeGuard"}, prop : IsProps, value : TestValues]

\* The calls that pass caller-supplied functions, with functions that raise
\* among them.
RaisingCalls ==
  [op : {"map", "transform", "when", "match"},
   value : Values, handlers : Objects(RaisingHandlers)]
  \cup
  [op : {"fold"}, value : Values, handlers : Objects(RaisingHandlers),
   defaultHandler : RaisingHandlers]
  \cup
  [op : {"filterBy"}, values : Arrays(Values, MaxLen),
   predicates : UNION {[K -> RaisingPredicates] :
                         K \in SUBSET {"aType", "bType"}}]

\* The cache of an Operations Set when the call is made: empty, or holding
\* the test obtained by an earlier request for isI.
CachesAtCall == {<<>>, proxyGet(<<>>, 0, <<"i", "s", "I">>).cache}

(* --------------------------- state machine ----------------------------- *)

Init ==
  /\ call \in Calls
  /\ outcome = Pending
  /\ typeGuardCache = <<>>
  /\ created = 0
  /\ firstReturned = <<>>
  /\ requests = <<>>
  /\ operationsSets = <<>>
  /\ heap = <<>>
  /\ history = <<>>

CallMap ==
  /\ outcome = Pending
  /\ call.op = "map"
  /\ outcome' = map(call.value, call.handlers)
  /\ UNCHANGED <<call, typeGuardCache, created, firstReturned,
               requests, operationsSets, heap, history>>

CallTransform ==
  /\ outcome = Pending
  /\ call.op = "transform"
  /\ outcome' = transform(call.value, call.handlers)
  /\ UNCHANGED <<call, typeGuardCache, created, firstReturned,
               requests, operationsSets, heap, history>>

CallWhen ==
  /\ outcome = Pending
  /\ call.op = "when"
  /\ outcome' = when(call.value, call.handlers)
  /\ UNCHANGED <<call, typeGuardCache, created, firstReturned,
               requests, operationsSets, heap, history>>

CallMatch ==
  /\ outcome = Pending
  /\ call.op = "match"
  /\ outcome' = match(call.value, call.handlers)
  /\ UNCHANGED <<call, typeGuardCache, created, firstReturned,
               requests, operationsSets, heap, history>>

CallFold ==
  /\ outcome = Pending
  /\ call.op = "fold"
  /\ outcome' = fold(call.value, call.handlers, call.defaultHandler)
  /\ UNCHANGED <<call, typeGuardCache, created, firstReturned,
               requests, operationsSets, heap, history>>

CallFilter ==
  /\ outcome = Pending
  /\ call.op = "filter"
  /\ outcome' = filter(call.values, call.types)
  /\ UNCHANGED <<call, typeGuardCache, created, firstReturned,
               requests, operationsSets, heap, history>>

CallFilterBy ==
  /\ outcome = Pending
  /\ call.op = "filterBy"
  /\ outcome' = filterBy(call.values, call.predicates)
  /\ UNCHANGED <<call, typeGuardCache, created, firstReturned,
               requests, operationsSets, heap, history>>

CallPartition ==
  /\ outcome = Pending
  /\ call.op = "partition"
  /\ outcome' = partition(call.values)
  /\ UNCHANGED <<call, typeGuardCache, created, firstReturned,
               requests, operationsSets, heap, history>>

CallGetType ==
  /\ outcome = Pending
  /\ call.op = "getType"
  /\ outcome' = getType(call.value)
  /\ UNCHANGED <<call, typeGuardCache, created, firstReturned,
               requests, operationsSets, heap, history>>

CallConstructor ==
  /\ outcome = Pending
  /\ call.op = "constructor"
  /\ outcome' = constructor(call.type, call.data)
  /\ UNCHANGED <<call, typeGuardCache, created, firstReturned,
               requests, operationsSets, heap, history>>

\* helpers[prop] for the boolean test the call is about to use.
ObtainTypeGuard ==
  /\ outcome = Pending
  /\ call.op = "typeGuard"
  /\ call.prop \notin DOMAIN typeGuardCache
  /\ LET got == proxyGet(typeGuardCache, created, call.prop)
     IN /\ typeGuardCache' = got.cache
        /\ created' = got.created
        /\ firstReturned' = firstReturned @@ (call.prop :> got.value)
  /\ UNCHANGED <<call, outcome, requests, operationsSets, heap, history>>

\* helpers.isX(value) on the test obtained.
ApplyTypeGuard ==
  /\ outcome = Pending
  /\ call.op = "typeGuard"
  /\ call.prop \in DOMAIN typeGuardCache
  /\ outcome' = Return(typeGuard(typeGuardCache[call.prop].typeName,
                                 call.value), <<>>)
  /\ UNCHANGED <<call, typeGuardCache, created, firstReturned,
               requests, operationsSets, heap, history>>

Next ==
  \/ CallMap
  \/ CallTransform
  \/ CallWhen
  \/ CallMatch
  \/ CallFilter
  \/ CallFilterBy
  \/ CallFold
  \/ CallPartition
  \/ CallGetType
  \/ CallConstructor
  \/ ObtainTypeGuard
  \/ ApplyTypeGuard

Spec == Init /\ [][Next]_vars

(* -------------- calls with caller-supplied functions that raise -------- *)

InitRaise ==
  /\ call \in RaisingCalls
  /\ outcome = Pending
  /\ typeGuardCache \in CachesAtCall
  /\ created = Cardinality(DOMAIN typeGuardCache)
  /\ firstReturned = typeGuardCache
  /\ requests = <<>>
  /\ operationsSets = <<>>
  /\ heap = <<>>
  /\ history = <<>>

NextRaise ==
  \/ CallMap
  \/ CallTransform
  \/ CallWhen
  \/ CallMatch
  \/ CallFold
  \/ CallFilterBy

SpecRaise == InitRaise /\ [][NextRaise]_vars

(* ------------------- a session on one Operations Set ------------------- *)

\* Discriminators of the session.  The cache treats a name as an opaque
\* key, so names of at most one character are enough.
SessionNames == Arrays(Alphabet, 1)

\* Properties requested in the session: every "is" + name, the core
\* properties, and one that is neither.
Props ==
  {<<"i", "s">> \o n : n \in SessionNames} \cup CoreProps \cup {<<"i">>}

\* The values the session's operations are called on.
SessionValues == {constructor(type, <<>>).value : type \in SessionNames}

\* create(): core is built and the cache is empty.
InitGuards ==
  /\ call = [op |-> "create"]
  /\ outcome = Pending
  /\ typeGuardCache = <<>>
  /\ created = 0
  /\ firstReturned = <<>>
  /\ requests = <<>>
  /\ operationsSets = <<>>
  /\ heap = <<>>
  /\ history = <<>>

\* helpers[prop]
GetProp ==
  \E prop \in Props :
    LET got == proxyGet(typeGuardCache, created, prop) IN
      /\ got.created <= MaxGuards
      /\ call' = [op |-> "get", prop |-> prop]
      /\ outcome' = Return(got.value, <<>>)
      /\ typeGuardCache' = got.cache
      /\ created' = got.created
      /\ firstReturned' =
           IF StartsWithIs(prop) /\ prop \notin DOMAIN firstReturned
             THEN firstReturned @@ (prop :> got.value)
             ELSE firstReturned
      /\ UNCHANGED <<requests, operationsSets, heap, history>>

\* helpers.isX(value), for a test obtained earlier.
CallTypeGuard ==
  \E prop \in DOMAIN typeGuardCache, value \in SessionValues :
    LET fn == typeGuardCache[prop]
    IN /\ call' = [op |-> "typeGuard", prop |-> prop, fn |-> fn,
                   value |-> value]
       /\ outcome' = Return(typeGuard(fn.typeName, value), <<>>)
       /\ UNCHANGED <<typeGuardCache, created, firstReturned,
                 requests, operationsSets, heap, history>>

\* helpers.getType(value): a core operation called during the session.
UseGetType ==
  \E value \in SessionValues :
    /\ call' = [op |-> "getType", value |-> value]
    /\ outcome' = getType(value)
    /\ UNCHANGED <<typeGuardCache, created, firstReturned,
                 requests, operationsSets, heap, history>>

NextGuards ==
  \/ GetProp
  \/ CallTypeGuard
  \/ UseGetType

SpecGuards == InitGuards /\ [][NextGuards]_vars

(* ------------- racing requests on one Operations Set ------------------- *)

\* The derived names the racing requests ask for.
RaceProps == {<<"i", "s", "I">>, <<"i", "s", "i">>}

\* create() has returned and MaxRequests activations of the get trap have
\* been entered, each for a derived name; none has looked the cache up yet.
InitRace ==
  /\ call = [op |-> "create"]
  /\ outcome = Pending
  /\ typeGuardCache = <<>>
  /\ created = 0
  /\ firstReturned = <<>>
  /\ requests \in [1..MaxRequests ->
                     [prop : RaceProps, pc : {"lookup"},
                      typeGuard : {<<>>}, returned : {<<>>}]]
  /\ operationsSets = <<>>
  /\ heap = <<>>
  /\ history = <<>>

\* const cached = typeGuardCache.get(prop); if (cached) return cached;
Lookup ==
  \E r \in DOMAIN requests :
    /\ requests[r].pc = "lookup"
    /\ requests' =
         [requests EXCEPT ![r] =
            IF @.prop \in DOMAIN typeGuardCache
              THEN [@ EXCEPT !.pc = "done",
                             !.returned = <<typeGuardCache[requests[r].prop]>>]
              ELSE [@ EXCEPT !.pc = "synthesize"]]
    /\ UNCHANGED <<call, outcome, typeGuardCache, created, firstReturned,
                   operationsSets, heap, history>>

\* const typeName = prop.slice(2); const typeGuard = (value) => ...
Synthesize ==
  \E r \in DOMAIN requests :
    /\ requests[r].pc = "synthesize"
    /\ requests' =
         [requests EXCEPT ![r] =
            [@ EXCEPT !.pc = "insert",
                      !.typeGuard =
                         <<newTypeGuard(created, requests[r].prop)>>]]
    /\ created' = created + 1
    /\ UNCHANGED <<call, outcome, typeGuardCache, firstReturned,
                   operationsSets, heap, history>>

\* typeGuardCache.set(prop, typeGuard); return typeGuard;
Insert ==
  \E r \in DOMAIN requests :
    /\ requests[r].pc = "insert"
    /\ typeGuardCache' =
         [prop \in DOMAIN typeGuardCache \cup {requests[r].prop} |->
            IF prop = requests[r].prop THEN requests[r].typeGuard[1]
            ELSE typeGuardCache[prop]]
    /\ requests' =
         [requests EXCEPT ![r] =
            [@ EXCEPT !.pc = "done", !.returned = requests[r].typeGuard]]
    /\ UNCHANGED <<call, outcome, created, firstReturned,
                   operationsSets, heap, history>>

NextRace ==
  \/ Lookup
  \/ Synthesize
  \/ Insert

SpecRace == InitRace /\ [][NextRace]_vars

(* ------------------ the same call made a second time ------------------- *)

\* The calls made twice: every operation, on arrays of at most one element.
TwiceCalls ==
  [op : {"map", "transform", "when", "match"},
   value : Values, handlers : HandlerMaps]
  \cup
  [op : {"fold"}, value : Values, handlers : HandlerMaps,
   defaultHandler : Handlers]
  \cup
  [op : {"filter"}, values : Arrays(Values, 1), types : Selectors]
  \cup
  [op : {"filterBy"}, values : Arrays(Values, 1),
   predicates : Objects(Predicates)]
  \cup
  [op : {"partition"}, values : Arrays(Values, 1)]
  \cup
  [op : {"getType"}, value : Values]
  \cup
  [op : {"constructor"}, type : Types, data : Payloads]
  \cup
  [op : {"typeGuard"}, prop : IsProps, value : TestValues]

InitTwice ==
  /\ call \in TwiceCalls
  /\ outcome = Pending
  /\ typeGuardCache = <<>>
  /\ created = 0
  /\ firstReturned = <<>>
  /\ requests = <<>>
  /\ operationsSets = <<>>
  /\ heap = <<>>
  /\ history = <<>>

\* helpers[prop] for a derived name, at any moment: before the call, between
\* the call and its repetition, or after.
RequestBetween ==
  \E prop \in RaceProps :
    LET got == proxyGet(typeGuardCache, created, prop)
    IN /\ got.created <= MaxGuards
       /\ typeGuardCache' = got.cache
       /\ created' = got.created
       /\ firstReturned' =
            IF prop \notin DOMAIN firstReturned
              THEN firstReturned @@ (prop :> got.value)
              ELSE firstReturned
       /\ UNCHANGED <<call, outcome, requests, operationsSets, heap, history>>

\* The caller notes the outcome and the cache of that moment, and makes the
\* same call with equal arguments again.
CallAgain ==
  /\ outcome # Pending
  /\ history = <<>>
  /\ history' = <<[outcome |-> outcome, cache |-> typeGuardCache]>>
  /\ outcome' = Pending
  /\ UNCHANGED <<call, typeGuardCache, created, firstReturned,
                 requests, operationsSets, heap>>

NextTwice ==
  \/ CallMap
  \/ CallTransform
  \/ CallWhen
  \/ CallMatch
  \/ CallFilter
  \/ CallFilterBy
  \/ CallFold
  \/ CallPartition
  \/ CallGetType
  \/ CallConstructor
  \/ ObtainTypeGuard
  \/ ApplyTypeGuard
  \/ RequestBetween
  \/ CallAgain

SpecTwice == InitTwice /\ [][NextTwice]_vars

(* -------------------- several Operations Sets -------------------------- *)

\* The properties requested of the Operations Sets: two derived names and
\* a core operation.
SetProps == {<<"i", "s", "I">>, <<"i", "s", "i">>, <<"m", "a", "p">>}

\* The module is loaded and create() has not been called.
InitSets ==
  /\ call = [op |-> "import"]
  /\ outcome = Pending
  /\ typeGuardCache = <<>>
  /\ created = 0
  /\ firstReturned = <<>>
  /\ requests = <<>>
  /\ operationsSets = <<>>
  /\ heap = <<>>
  /\ history = <<>>

\* create(): typeGuardCache = new Map(), and the Proxy returned captures it.
Create ==
  /\ Len(operationsSets) < MaxSets
  /\ LET cache == newMap(heap)
     IN /\ heap' = IF cache \in DOMAIN heap THEN heap ELSE Append(heap, <<>>)
        /\ operationsSets' = Append(operationsSets, cache)
  /\ call' = [op |-> "create"]
  /\ outcome' = Return(Len(operationsSets) + 1, <<>>)
  /\ UNCHANGED <<typeGuardCache, created, firstReturned, requests, history>>

\* helpers[prop] on the Operations Set s: the get trap works on the Map that
\* s captured.  firstReturned holds, for each set and derived name, what the
\* first request returned.
GetPropOn ==
  \E s \in DOMAIN operationsSets, prop \in SetProps :
    LET cache == operationsSets[s]
        got == proxyGet(heap[cache], created, prop)
    IN /\ got.created <= MaxGuards
       /\ heap' = [heap EXCEPT ![cache] = got.cache]
       /\ created' = got.created
       /\ call' = [op |-> "get", set |-> s, prop |-> prop]
       /\ outcome' = Return(got.value, <<>>)
       /\ firstReturned' =
            IF StartsWithIs(prop) /\ <<s, prop>> \notin DOMAIN firstReturned
              THEN firstReturned @@ (<<s, prop>> :> got.value)
              ELSE firstReturned
       /\ UNCHANGED <<typeGuardCache, requests, operationsSets, history>>

\* helpers.isX(value) on the Operations Set s, for a test s has cached.
CallTypeGuardOn ==
  \E s \in DOMAIN operationsSets, value \in SessionValues :
    \E prop \in DOMAIN heap[operationsSets[s]] :
      LET fn == heap[operationsSets[s]][prop]
      IN /\ call' = [op |-> "typeGuard", set |-> s, prop |-> prop,
                     value |-> value]
         /\ outcome' = Return(typeGuard(fn.typeName, value), <<>>)
         /\ UNCHANGED <<typeGuardCache, created, firstReturned, requests,
                        operationsSets, heap, history>>

NextSets ==
  \/ Create
  \/ GetPropOn
  \/ CallTypeGuardOn

SpecSets == InitSets /\ [][NextSets]_vars

(* ------------------- arguments passed by reference --------------------- *)

\* The heap is the sequence of the objects allocated, an object's address
\* being its index.  The arguments of the call are the first objects; the
\* call holds their addresses.  An object is held with its content (an array
\* with its elements), so a write to an argument or to one of its elements
\* shows as a change of the object at the argument's address.

\* Building the result by moving the content of the call's first argument
\* into it: the new object gets a new address and the argument is left empty.
NewDrainsArgument(h, obj) ==
  [heap |-> Append([h EXCEPT ![1] = <<>>], obj), ref |-> Len(h) + 1]

\* An object literal or array the call builds ({ ...data, type }, the array
\* of values.filter, the {} and [] of partition, the object a handler
\* returns): it gets an address that was not on the heap.
New(h, obj) == [heap |-> Append(h, obj), ref |-> Len(h) + 1]

\* The heap and the outcome after a dispatch whose outcome on the
\* dereferenced arguments is r: an error leaves the heap as it is; with no
\* function called the input itself is returned (`return value`); a string
\* is returned by value; an object returned by the function called is new.
PlaceResult(h, r, input) ==
  IF r.kind # "return" THEN [heap |-> h, outcome |-> r]
  ELSE IF r.calls = <<>>
    THEN [heap |-> h, outcome |-> Return([ref |-> input], <<>>)]
  ELSE IF r.value.type = Undefined THEN [heap |-> h, outcome |-> r]
  ELSE LET built == New(h, r.value)
       IN [heap |-> built.heap,
           outcome |-> Return([ref |-> built.ref], r.calls)]

\* The heap and the outcome after an operation that returns a container it
\* builds.
PlaceNew(h, r) ==
  IF r.kind # "return" THEN [heap |-> h, outcome |-> r]
  ELSE LET built == New(h, r.value)
       IN [heap |-> built.heap,
           outcome |-> Return([ref |-> built.ref], r.calls)]

\* The calls made with their arguments on the heap: every operation, on
\* arrays of at most two elements.
HeapCalls ==
  [op : {"map", "transform", "when", "match"},
   value : Values, handlers : HandlerMaps]
  \cup
  [op : {"fold"}, value : Values, handlers : HandlerMaps,
   defaultHandler : Handlers]
  \cup
  [op : {"filter"}, values : Arrays(Values, 2), types : Selectors]
  \cup
  [op : {"filterBy"}, values : Arrays(Values, 2),
   predicates : Objects(Predicates)]
  \cup
  [op : {"partition"}, values : Arrays(Values, 2)]
  \cup
  [op : {"getType"}, value : Values]
  \cup
  [op : {"constructor"}, type : Types, data : Payloads]
  \cup
  [op : {"typeGuard"}, prop : IsProps, value : TestValues]

\* The objects among the arguments of the call c, in the order they are
\* passed: the caller's heap.
Arguments(c) ==
  CASE c.op \in {"map", "transform", "when", "match", "fold"} ->
         <<c.value, c.handlers>>
    [] c.op = "filter" -> <<c.values, c.types>>
    [] c.op = "filterBy" -> <<c.values, c.predicates>>
    [] c.op = "partition" -> <<c.values>>
    [] c.op \in {"getType", "typeGuard"} -> <<c.value>>
    [] c.op = "constructor" -> <<c.data>>

\* The call c with the addresses of its arguments in place of the objects.
ByReference(c) ==
  CASE c.op \in {"map", "transform", "when", "match"} ->
         [op |-> c.op, value |-> 1, handlers |-> 2]
    [] c.op = "fold" ->
         [op |-> c.op, value |-> 1, handlers |-> 2,
          defaultHandler |-> c.defaultHandler]
    [] c.op = "filter" -> [op |-> c.op, values |-> 1, types |-> 2]
    [] c.op = "filterBy" -> [op |-> c.op, values |-> 1, predicates |-> 2]
    [] c.op = "partition" -> [op |-> c.op, values |-> 1]
    [] c.op = "getType" -> [op |-> c.op, value |-> 1]
    [] c.op = "typeGuard" -> [op |-> c.op, prop |-> c.prop, value |-> 1]
    [] c.op = "constructor" -> [op |-> c.op, type |-> c.type, data |-> 1]

InitHeap ==
  /\ \E c \in HeapCalls :
       /\ heap = Arguments(c)
       /\ call = ByReference(c)
  /\ outcome = Pending
  /\ typeGuardCache = <<>>
  /\ created = 0
  /\ firstReturned = <<>>
  /\ requests = <<>>
  /\ operationsSets = <<>>
  /\ history = <<>>

\* helpers.map(value, handlers)
HeapMap ==
  /\ outcome = Pending
  /\ call.op = "map"
  /\ LET placed == PlaceResult(heap, map(heap[call.value], heap[call.handlers]),
                               call.value)
     IN /\ heap' = placed.heap
        /\ outcome' = placed.outcome
  /\ UNCHANGED <<call, typeGuardCache, created, firstReturned,
                 requests, operationsSets, history>>

\* helpers.transform(value, handlers)
HeapTransform ==
  /\ outcome = Pending
  /\ call.op = "transform"
  /\ LET placed == PlaceResult(heap, transform(heap[call.value], heap[call.handlers]),
                               call.value)
     IN /\ heap' = placed.heap
        /\ outcome' = placed.outcome
  /\ UNCHANGED <<call, typeGuardCache, created, firstReturned,
                 requests, operationsSets, history>>

\* helpers.when(value, handlers)
HeapWhen ==
  /\ outcome = Pending
  /\ call.op = "when"
  /\ LET placed == PlaceResult(heap, when(heap[call.value], heap[call.handlers]),
                               call.value)
     IN /\ heap' = placed.heap
        /\ outcome' = placed.outcome
  /\ UNCHANGED <<call, typeGuardCache, created, firstReturned,
                 requests, operationsSets, history>>

\* helpers.match(value, handlers)
HeapMatch ==
  /\ outcome = Pending
  /\ call.op = "match"
  /\ LET placed == PlaceResult(heap, match(heap[call.value], heap[call.handlers]),
                               call.value)
     IN /\ heap' = placed.heap
        /\ outcome' = placed.outcome
  /\ UNCHANGED <<call, typeGuardCache, created, firstReturned,
                 requests, operationsSets, history>>

\* helpers.fold(value, handlers, defaultHandler)
HeapFold ==
  /\ outcome = Pending
  /\ call.op = "fold"
  /\ LET placed == PlaceResult(heap,
                               fold(heap[call.value], heap[call.handlers],
                                    call.defaultHandler),
                               call.value)
     IN /\ heap' = placed.heap
        /\ outcome' = placed.outcome
  /\ UNCHANGED <<call, typeGuardCache, created, firstReturned,
                 requests, operationsSets, history>>

\* helpers.filter(values, types)
HeapFilter ==
  /\ outcome = Pending
  /\ call.op = "filter"
  /\ LET placed == PlaceNew(heap, filter(heap[call.values], heap[call.types]))
     IN /\ heap' = placed.heap
        /\ outcome' = placed.outcome
  /\ UNCHANGED <<call, typeGuardCache, created, firstReturned,
                 requests, operationsSets, history>>

\* helpers.filterBy(values, predicates)
HeapFilterBy ==
  /\ outcome = Pending
  /\ call.op = "filterBy"
  /\ LET placed == PlaceNew(heap,
                            filterBy(heap[call.values], heap[call.predicates]))
     IN /\ heap' = placed.heap
        /\ outcome' = placed.outcome
  /\ UNCHANGED <<call, typeGuardCache, created, firstReturned,
                 requests, operationsSets, history>>

\* helpers.partition(values)
HeapPartition ==
  /\ outcome = Pending
  /\ call.op = "partition"
  /\ LET placed == PlaceNew(heap, partition(heap[call.values]))
     IN /\ heap' = placed.heap
        /\ outcome' = placed.outcome
  /\ UNCHANGED <<call, typeGuardCache, created, firstReturned,
                 requests, operationsSets, history>>

\* helpers.constructor(type)(data)
HeapConstructor ==
  /\ outcome = Pending
  /\ call.op = "constructor"
  /\ LET placed == PlaceNew(heap, constructor(call.type, heap[call.data]))
     IN /\ heap' = placed.heap
        /\ outcome' = placed.outcome
  /\ UNCHANGED <<call, typeGuardCache, created, firstReturned,
                 requests, operationsSets, history>>

\* helpers.getType(value): a string, returned by value.
HeapGetType ==
  /\ outcome = Pending
  /\ call.op = "getType"
  /\ outcome' = getType(heap[call.value])
  /\ UNCHANGED <<call, typeGuardCache, created, firstReturned,
                 requests, operationsSets, heap, history>>

\* helpers.isX(value): the request for the test and its call; a boolean,
\* returned by value.
HeapTypeGuard ==
  /\ outcome = Pending
  /\ call.op = "typeGuard"
  /\ LET got == proxyGet(typeGuardCache, created, call.prop)
     IN /\ typeGuardCache' = got.cache
        /\ created' = got.created
        /\ firstReturned' = firstReturned @@ (call.prop :> got.value)
        /\ outcome' = Return(typeGuard(got.value.typeName, heap[call.value]),
                             <<>>)
  /\ UNCHANGED <<call, requests, operationsSets, heap, history>>

NextHeap ==
  \/ HeapMap
  \/ HeapTransform
  \/ HeapWhen
  \/ HeapMatch
  \/ HeapFold
  \/ HeapFilter
  \/ HeapFilterBy
  \/ HeapPartition
  \/ HeapGetType
  \/ HeapConstructor
  \/ HeapTypeGuard

SpecHeap == InitHeap /\ [][NextHeap]_vars

(* ------------------------------ claims --------------------------------- *)

\* The call has produced its outcome.
Done == outcome # Pending

\* The handler map of the call has an own entry for the value's discriminator.
HasEntry == call.value.type \in DOMAIN call.handlers

\* The positions of `values` whose element satisfies Keep, and the property
\* that `out` is exactly the order-preserving subsequence at those positions:
\* the element at the k-th kept position is the k-th element of out.
IsSubsequenceAt(out, values, kept) ==
  /\ Len(out) = Cardinality(kept)
  /\ \A j \in kept : out[Cardinality({i \in kept : i <= j})] = values[j]

\* C1: when(v, H), for H with an entry for v's discriminator (H complete or
\* not), invokes exactly H[v.type] with v and returns that handler's result.
C1_WhenInvokesHandler ==
  (call.op = "when" /\ Done /\ HasEntry) =>
    LET handler == call.handlers[call.value.type] IN
      /\ outcome.calls = <<[fn |-> handler, arg |-> call.value]>>
      /\ outcome = Call(handler, call.value)

\* C1 witness: when has returned the result of the entry of an incomplete
\* handler map.
C1_Witness ==
  /\ call.op = "when" /\ Done /\ HasEntry
  /\ DOMAIN call.handlers # Types
  /\ outcome.kind = "return"
  /\ Len(outcome.calls) = 1

\* C2: when(v, H) and match(v, H), for H with no entry for v's discriminator,
\* raise the error 'No handler found for type: <discriminator>'; no handler
\* is invoked and nothing is returned.
C2_MissingHandlerThrows ==
  (call.op \in {"when", "match"} /\ Done /\ ~HasEntry) =>
    /\ outcome.kind = "throw"
    /\ outcome.calls = <<>>
    /\ outcome.error.message = "No handler found for type: " \o call.value.type

\* C3: when and match are behaviourally identical: on every value and every
\* handler map, complete or not, both return the same result or both raise
\* the same lookup error.
C3_WhenEqualsMatch ==
  /\ (call.op = "when" /\ Done) => outcome = match(call.value, call.handlers)
  /\ (call.op = "match" /\ Done) => outcome = when(call.value, call.handlers)

\* C3 witness: match has raised the lookup error on an incomplete handler map.
C3_Witness ==
  /\ call.op = "match" /\ Done /\ ~HasEntry
  /\ outcome.kind = "throw"
  /\ outcome.error.name = "Error"

\* C4: fold(v, H, D) returns H[v.type](v) when H has an entry for v's
\* discriminator, and otherwise D(v), the default applied to the original
\* value.
C4_FoldHandlerOrDefault ==
  (call.op = "fold" /\ Done) =>
    outcome = IF HasEntry
                THEN Call(call.handlers[call.value.type], call.value)
                ELSE Call(call.defaultHandler, call.value)

\* C5: fold, map and transform are total with respect to missing entries:
\* on a handler map with no entry for the value's discriminator, the empty
\* map included, none of them raises an error.
C5_PartialDispatchTotal ==
  (call.op \in {"fold", "map", "transform"} /\ Done /\ ~HasEntry) =>
    outcome.kind = "return"

\* C6: map preserves the discriminator: with handlers that return their own
\* variant, the discriminator of map(v, H) equals the discriminator of v.
C6_MapPreservesDiscriminator ==
  ( /\ call.op = "map" /\ Done
    /\ \A k \in DOMAIN call.handlers : call.handlers[k] \in SameVariantHandlers
    /\ outcome.kind = "return" ) =>
    outcome.value.type = call.value.type

\* C7: map(v, H) returns H[v.type](v) when H has an entry for v's
\* discriminator, and otherwise the input v itself, unchanged, with no
\* handler applied.
C7_MapHandlerOrIdentity ==
  (call.op = "map" /\ Done) =>
    outcome = IF HasEntry
                THEN Call(call.handlers[call.value.type], call.value)
                ELSE Return(call.value, <<>>)

\* C8: transform(v, H) returns H[v.type](v) when H has an entry for v's
\* discriminator, whatever discriminator the result carries, and otherwise
\* the input v unchanged: the only transitions are those of the handlers.
C8_TransformHandlerOrIdentity ==
  (call.op = "transform" /\ Done) =>
    IF HasEntry
      THEN outcome = Call(call.handlers[call.value.type], call.value)
      ELSE outcome.kind = "return" /\ outcome.value = call.value
           /\ outcome.calls = <<>>

\* C9: filter returns exactly the subsequence of the elements whose
\* discriminator is in the selector (one discriminator or an array of them),
\* in their original relative order; the empty input and a selector matching
\* no element give the empty sequence.
C9_FilterSubsequence ==
  (call.op = "filter" /\ Done) =>
    LET selected ==
          IF call.types.isArray
            THEN {call.types.items[i] : i \in DOMAIN call.types.items}
            ELSE {call.types.item}
        kept == {j \in DOMAIN call.values : call.values[j].type \in selected}
    IN /\ outcome.kind = "return"
       /\ IsSubsequenceAt(outcome.value, call.values, kept)
       /\ (kept = {} => outcome.value = <<>>)

\* C9 witness: filter with an array of two discriminators has dropped one of
\* three elements and kept two different ones.
C9_Witness ==
  /\ call.op = "filter" /\ Done
  /\ call.types.isArray
  /\ Cardinality({call.types.items[i] : i \in DOMAIN call.types.items}) = 2
  /\ Len(call.values) = 3
  /\ Len(outcome.value) = 2
  /\ outcome.value[1].type # outcome.value[2].type

\* C10: filterBy returns exactly the order-preserving subsequence of the
\* elements whose discriminator is a key of the predicate map and whose
\* predicate returns true for them; elements whose discriminator is no key
\* are excluded, so filterBy(values, {}) is empty.
C10_FilterBySubsequence ==
  (call.op = "filterBy" /\ Done) =>
    LET P == call.predicates
        kept == {j \in DOMAIN call.values :
                   /\ call.values[j].type \in DOMAIN P
                   /\ P[call.values[j].type] # Undefined
                   /\ Test(P[call.values[j].type], call.values[j])}
    IN /\ outcome.kind = "return"
       /\ IsSubsequenceAt(outcome.value, call.values, kept)
       /\ \A i \in DOMAIN outcome.value :
            outcome.value[i].type \in DOMAIN P
       /\ (DOMAIN P = {} => outcome.value = <<>>)

\* C10 witness: filterBy has kept one element, dropped one whose predicate
\* returned false and dropped one whose discriminator is no key.
C10_Witness ==
  /\ call.op = "filterBy" /\ Done
  /\ Len(outcome.value) = 1
  /\ \E i, j \in DOMAIN call.values :
       /\ call.values[i].type \notin DOMAIN call.predicates
       /\ call.values[j].type \in DOMAIN call.predicates
       /\ call.predicates[call.values[j].type] = "long"
       /\ ~Test("long", call.values[j])

\* The discriminators that occur in an array of values.
Occurring(values) == {values[i].type : i \in DOMAIN values}

\* C11: the key set of partition(values) is exactly the set of discriminators
\* that occur in the input: no key is mapped to an empty sequence, and
\* partition of the empty sequence is the empty mapping.
C11_PartitionKeys ==
  (call.op = "partition" /\ Done) =>
    /\ outcome.kind = "return"
    /\ DOMAIN outcome.value = Occurring(call.values)
    /\ \A k \in DOMAIN outcome.value : outcome.value[k] # <<>>
    /\ (call.values = <<>> => outcome.value = <<>>)

\* The number of elements of an array equal to v.
Count(array, v) == Cardinality({i \in DOMAIN array : array[i] = v})

\* The discriminators of values[i..], each once, in first-seen order.
RECURSIVE FirstSeen(_, _, _)
FirstSeen(values, i, seen) ==
  IF i > Len(values) THEN <<>>
  ELSE IF values[i].type \in seen THEN FirstSeen(values, i + 1, seen)
  ELSE <<values[i].type>>
       \o FirstSeen(values, i + 1, seen \cup {values[i].type})

\* The groups of a partition concatenated in the order of keys.
RECURSIVE ConcatGroups(_, _)
ConcatGroups(groups, keys) ==
  IF keys = <<>> THEN <<>>
  ELSE groups[Head(keys)] \o ConcatGroups(groups, Tail(keys))

\* C12: the lengths of the groups of partition(values) sum to the length of
\* the input, and the groups concatenated in first-seen discriminator order
\* are a permutation of the input.
C12_PartitionPermutation ==
  (call.op = "partition" /\ Done) =>
    /\ outcome.kind = "return"
    /\ DOMAIN outcome.value = Occurring(call.values)
    /\ LET all == ConcatGroups(outcome.value, FirstSeen(call.values, 1, {}))
       IN /\ Len(all) = Len(call.values)
          /\ \A v \in Values : Count(all, v) = Count(call.values, v)

\* C13: for every discriminator k that occurs in the input,
\* partition(values)[k] holds only elements with discriminator k, in the
\* relative order of the input.
C13_PartitionStable ==
  (call.op = "partition" /\ Done) =>
    /\ outcome.kind = "return"
    /\ \A k \in Occurring(call.values) :
         /\ k \in DOMAIN outcome.value
         /\ IsSubsequenceAt(outcome.value[k], call.values,
                            {j \in DOMAIN call.values : call.values[j].type = k})

\* C14: filter, filterBy and partition are total: on every array of tagged
\* values, whatever discriminators they carry, they return a result and
\* raise no error.
C14_CollectionsTotal ==
  (call.op \in {"filter", "filterBy", "partition"} /\ Done) =>
    outcome.kind = "return"

\* C15: getType(v) returns exactly v's discriminator.
C15_GetType ==
  (call.op = "getType" /\ Done) =>
    /\ outcome.kind = "return"
    /\ outcome.value = call.value.type

\* C15 witness: getType has returned the discriminator of a value.
C15_Witness ==
  /\ call.op = "getType" /\ Done
  /\ outcome.value = "bType"

\* C16: constructor(t)(p) is a record whose discriminator is t, that carries
\* every payload field of p (every field but the discriminator) with its
\* value unchanged, and that has no other field.
C16_Constructor ==
  (call.op = "constructor" /\ Done) =>
    /\ outcome.kind = "return"
    /\ DOMAIN outcome.value = DOMAIN call.data \cup {"type"}
    /\ outcome.value["type"] = call.type
    /\ \A k \in DOMAIN call.data \ {"type"} : outcome.value[k] = call.data[k]

\* C16 witness: a constructor has built a value from a payload of two fields.
C16_Witness ==
  /\ call.op = "constructor" /\ Done
  /\ DOMAIN call.data = {"data", "flag"}
  /\ call.data["data"] # call.data["flag"]
  /\ outcome.kind = "return"

\* C17: for every discriminator t and payload p, the boolean test derived
\* for t returns true on constructor(t)(p), and the test derived for every
\* other discriminator of the schema returns false on it.
C17_TestsTellVariants ==
  (call.op = "typeGuard" /\ Done) =>
    \A t \in Names :
      (call.prop = DerivedName(t)) => (outcome.value = (t = call.value.type))

\* N with only its first character lower-cased.
IsFirstLowered(d, N) ==
  /\ N # <<>>
  /\ Len(d) = Len(N)
  /\ d[1] = toLowerCase(N[1])
  /\ \A i \in 2..Len(N) : d[i] = N[i]

\* C18: the test synthesized for the derived name "is" + N returns true
\* exactly on the values whose discriminator equals N or equals N with only
\* its first character lower-cased; no other casing of N is accepted.
C18_TestAcceptsTwoCasings ==
  (call.op = "typeGuard" /\ Done) =>
    LET N == Slice2(call.prop)
        d == call.value.type
    IN outcome.value = (d = N \/ IsFirstLowered(d, N))

\* C18 witness: a test has rejected a value whose discriminator is N wholly
\* lower-cased, which differs from N with its first character lower-cased.
C18_Witness ==
  /\ call.op = "typeGuard" /\ Done
  /\ LET N == Slice2(call.prop)
         d == call.value.type
     IN /\ Len(N) = 2 /\ Len(d) = 2
        /\ \A i \in 1..2 : d[i] = toLowerCase(N[i])
        /\ d[2] # N[2]
        /\ outcome.value = FALSE

\* C19: once the first request for a derived name "is..." has returned a
\* function, every later request for that name, after any other requests
\* and operation calls, returns that same instance; a function is
\* synthesized only by the first request for its name, none by create().
C19_SameInstance ==
  /\ DOMAIN typeGuardCache = DOMAIN firstReturned
  /\ created = Cardinality(DOMAIN firstReturned)
  /\ (call.op = "get" /\ call.prop \in DOMAIN firstReturned) =>
       outcome.value = firstReturned[call.prop]

\* C19 witness: a derived name requested again, after the test of another
\* name was synthesized, got its first instance back.
C19_Witness ==
  /\ call.op = "get" /\ call.prop \in DOMAIN firstReturned
  /\ created = 2
  /\ outcome.value.id = 1

\* C20: the cache only grows: an entry, once in the cache, is never removed
\* and never replaced by another function, whatever request or operation
\* follows.
C20_CacheOnlyGrows ==
  [][\A prop \in DOMAIN typeGuardCache :
       /\ prop \in DOMAIN typeGuardCache'
       /\ typeGuardCache'[prop] = typeGuardCache[prop]]_vars

\* C20 witness: with two entries in the cache, a cached test has been called
\* and the name of the older entry requested again.
C20_Witness ==
  /\ Cardinality(DOMAIN typeGuardCache) = 2
  /\ call.op = "get" /\ call.prop \in DOMAIN typeGuardCache
  /\ typeGuardCache[call.prop].id = 1

\* The calls of caller-supplied functions a filterBy makes on values[i..]:
\* one per element whose discriminator is a key holding a function.
RECURSIVE PredicateCalls(_, _, _)
PredicateCalls(values, P, i) ==
  IF i > Len(values) THEN <<>>
  ELSE IF values[i].type \in DOMAIN P /\ P[values[i].type] # Undefined
    THEN <<[fn |-> P[values[i].type], arg |-> values[i]]>>
         \o PredicateCalls(values, P, i + 1)
  ELSE PredicateCalls(values, P, i + 1)

\* C26: a caller-supplied function only receives a value whose discriminator
\* is the key it is registered under; when, match, map and transform invoke
\* at most one handler, once; fold invokes exactly one of the matching
\* handler and the default handler, never both; filterBy invokes at most one
\* predicate per element, once, in input order, and none for an element
\* whose discriminator is no key.
C26_ExclusiveSelection ==
  Done =>
    /\ (call.op \in {"when", "match", "map", "transform"}) =>
         /\ Len(outcome.calls) <= 1
         /\ \A i \in DOMAIN outcome.calls :
              outcome.calls[i].fn \in Handlers =>
                /\ HasEntry
                /\ outcome.calls[i] =
                     [fn |-> call.handlers[call.value.type],
                      arg |-> call.value]
    /\ (call.op = "fold") =>
         outcome.calls =
           <<[fn |-> IF HasEntry THEN call.handlers[call.value.type]
                     ELSE call.defaultHandler,
              arg |-> call.value]>>
    /\ (call.op = "filterBy") =>
         outcome.calls = PredicateCalls(call.values, call.predicates, 1)

\* C28: at run time map and transform are the same function: on every value
\* and every handler map both return the same result.
C28_MapEqualsTransform ==
  /\ (call.op = "map" /\ Done) =>
       outcome = transform(call.value, call.handlers)
  /\ (call.op = "transform" /\ Done) =>
       outcome = map(call.value, call.handlers)

\* C28 witness: transform has returned a value of another variant than its
\* input, the result of the handler map would have applied too.
C28_Witness ==
  /\ call.op = "transform" /\ Done /\ HasEntry
  /\ outcome.kind = "return"
  /\ outcome.value.type # call.value.type
  /\ outcome.value.type \in Types

\* C29: partition and filter agree: for every discriminator k,
\* partition(values)[k] equals filter(values, k) when k occurs in the input,
\* and k is no key of partition(values) exactly when filter(values, k) is
\* empty.
C29_PartitionAgreesWithFilter ==
  (call.op = "partition" /\ Done) =>
    /\ outcome.kind = "return"
    /\ \A k \in Types :
         LET selected ==
               filter(call.values, [isArray |-> FALSE, item |-> k]).value
         IN /\ (k \in Occurring(call.values)) =>
                 (k \in DOMAIN outcome.value /\ outcome.value[k] = selected)
            /\ (k \notin DOMAIN outcome.value) <=> (selected = <<>>)

\* C27: only a request for a property whose name starts with "is" changes
\* the cache, and it adds at most one entry, for exactly that name; a request
\* for another property resolves to the fixed core operation and leaves the
\* cache unchanged, as do a call of a core operation and a call of a test
\* obtained earlier.
C27_OnlyIsRequestsGrowCache ==
  [][ /\ (typeGuardCache' # typeGuardCache) =>
           /\ call'.op = "get"
           /\ StartsWithIs(call'.prop)
           /\ call'.prop \notin DOMAIN typeGuardCache
           /\ DOMAIN typeGuardCache' = DOMAIN typeGuardCache \cup {call'.prop}
           /\ \A prop \in DOMAIN typeGuardCache :
                typeGuardCache'[prop] = typeGuardCache[prop]
      /\ (call'.op = "get" /\ ~StartsWithIs(call'.prop)) =>
           /\ typeGuardCache' = typeGuardCache
           /\ (call'.prop \in CoreProps) =>
                outcome' = Return([core |-> call'.prop], <<>>)
      /\ (call'.op \in {"typeGuard", "getType"}) =>
           typeGuardCache' = typeGuardCache
    ]_vars

\* C27 witness: with a test in the cache, a core operation was requested and
\* the request resolved to it.
C27_Witness ==
  /\ Cardinality(DOMAIN typeGuardCache) = 1
  /\ call.op = "get" /\ call.prop \in CoreProps
  /\ outcome.value = [core |-> call.prop]

\* The function a dispatch selects: the handler read from the handler map
\* and, for fold, the default handler when that read is falsy.
Selected(c) ==
  LET handler == Get(c.handlers, c.value.type)
  IN IF Truthy(handler) THEN handler
     ELSE IF c.op = "fold" THEN c.defaultHandler
     ELSE Undefined

\* The caller-supplied function the call selects raises: the handler or the
\* default handler of a dispatch, or the predicate of some element.
SelectedRaises(c) ==
  IF c.op = "filterBy"
    THEN \E i \in DOMAIN c.values :
           /\ c.values[i].type \in DOMAIN c.predicates
           /\ c.predicates[c.values[i].type] = "boom"
    ELSE Selected(c) = "boom"

\* C25: errors raised by caller-supplied functions are not caught: when the
\* handler, default handler or predicate selected by when, match, fold, map,
\* transform or filterBy raises, the operation raises that same error,
\* returns no result, partial or not, and leaves the cache unchanged.
C25_ErrorsPropagate ==
  [][ (outcome = Pending /\ outcome' # Pending /\ SelectedRaises(call)) =>
        /\ outcome'.kind = "throw"
        /\ outcome'.error = [name |-> "Error", message |-> "boom"]
        /\ "value" \notin DOMAIN outcome'
        /\ outcome'.calls[Len(outcome'.calls)].fn = "boom"
        /\ typeGuardCache' = typeGuardCache
    ]_vars

\* C25 witness: with a test in the cache, filterBy has raised the error of
\* the predicate of its second element, after the first element passed its
\* own predicate.
C25_Witness ==
  /\ call.op = "filterBy" /\ Done
  /\ typeGuardCache # <<>>
  /\ outcome.kind = "throw"
  /\ Len(outcome.calls) = 2
  /\ outcome.calls[1].fn = "long"
  /\ Test("long", outcome.calls[1].arg)

\* The functions synthesized, returned or cached so far for a derived name.
\* A request keeps the closure it synthesized, so a closure that Map.set has
\* replaced in the cache is still among them.
RaceFunctions(prop) ==
  {requests[r].typeGuard[1] :
     r \in {q \in DOMAIN requests :
              requests[q].prop = prop /\ requests[q].typeGuard # <<>>}}
  \cup
  {requests[r].returned[1] :
     r \in {q \in DOMAIN requests :
              requests[q].prop = prop /\ requests[q].returned # <<>>}}
  \cup
  (IF prop \in DOMAIN typeGuardCache THEN {typeGuardCache[prop]} ELSE {})

\* C21: under every interleaving of concurrent first-time requests for a
\* derived name on one Operations Set, with lookup, synthesis and insertion
\* as separate steps, all functions returned or cached for that name give
\* the same boolean result on every value.
C21_RacingTestsAgree ==
  \A prop \in RaceProps :
    \A f, g \in RaceFunctions(prop) :
      \A value \in SessionValues :
        typeGuard(f.typeName, value) = typeGuard(g.typeName, value)

\* C21 witness: two requests for the same name have both synthesized a
\* function and returned different instances, one of which was replaced in
\* the cache by the other.
C21_Witness ==
  \E r, q \in DOMAIN requests :
    /\ requests[r].prop = requests[q].prop
    /\ requests[r].pc = "done" /\ requests[q].pc = "done"
    /\ requests[r].typeGuard # <<>> /\ requests[q].typeGuard # <<>>
    /\ requests[r].returned[1].id # requests[q].returned[1].id
    /\ typeGuardCache[requests[r].prop] = requests[q].returned[1]
    /\ \E value \in SessionValues :
         typeGuard(requests[r].returned[1].typeName, value)

\* The cache of the Operations Set s.
CacheOf(s) == heap[operationsSets[s]]

\* C22: the cache is private to each Operations Set: a request on one set
\* never adds to or changes the cache of a set made by another create(),
\* and the first request for a derived name on a set always synthesizes a
\* function of its own.
C22_CachePrivate ==
  [][ /\ \A s \in DOMAIN operationsSets :
           ~(call'.op = "get" /\ call'.set = s) =>
             /\ operationsSets'[s] = operationsSets[s]
             /\ heap'[operationsSets'[s]] = CacheOf(s)
      /\ ( /\ call'.op = "get"
           /\ StartsWithIs(call'.prop)
           /\ <<call'.set, call'.prop>> \notin DOMAIN firstReturned ) =>
           /\ created' = created + 1
           /\ outcome'.value.id = created'
           /\ \A k \in DOMAIN firstReturned :
                firstReturned[k] # outcome'.value
    ]_vars

\* C22 witness: two Operations Sets each hold their own test for the same
\* derived name.
C22_Witness ==
  /\ Len(operationsSets) = 2
  /\ \E prop \in SetProps :
       /\ prop \in DOMAIN CacheOf(1) /\ prop \in DOMAIN CacheOf(2)
       /\ CacheOf(1)[prop].id # CacheOf(2)[prop].id
       /\ CacheOf(1)[prop].typeName = CacheOf(2)[prop].typeName

C23_InputsUnchanged ==
  [][ /\ call' = call
      /\ \A a \in DOMAIN heap : a \in DOMAIN heap' /\ heap'[a] = heap[a]
      /\ ( /\ call.op \in {"filter", "filterBy", "partition"}
           /\ outcome = Pending
           /\ outcome'.kind = "return" ) =>
           /\ outcome'.value.ref \notin DOMAIN heap
           /\ outcome'.value.ref \in DOMAIN heap'
    ]_vars

\* C23 witness: partition has returned a new container with two groups
\* while its input array of two elements is at its address as before.
C23_Witness ==
  /\ call.op = "partition" /\ Done
  /\ outcome.kind = "return"
  /\ Len(heap[call.values]) = 2
  /\ outcome.value.ref # call.values
  /\ Cardinality(DOMAIN heap[outcome.value.ref]) = 2

\* C30: the fixed discriminator wins over the payload: constructor(t)(p) has
\* the discriminator t for every t and p, also when p carries a `type` field
\* with another value, and the payload p is not modified.
C30_DiscriminatorWins ==
  [][ (call.op = "constructor" /\ outcome = Pending /\ outcome' # Pending) =>
        /\ outcome'.kind = "return"
        /\ heap'[outcome'.value.ref]["type"] = call.type
        /\ outcome'.value.ref # call.data
        /\ heap'[call.data] = heap[call.data]
    ]_vars

\* C30 witness: a constructor was given a payload with a `type` field of
\* another value; the value built carries the constructor's discriminator
\* and the payload still carries its own.
C30_Witness ==
  /\ call.op = "constructor" /\ Done
  /\ "type" \in DOMAIN heap[call.data]
  /\ heap[call.data]["type"] # call.type
  /\ heap[outcome.value.ref]["type"] = call.type

====
